---- MODULE Spec2Model ----
(***************************************************************************)
(* CachyUpdate_History.py: the pacman log parser, the filter, the text     *)
(* exporter, the terminal display and the run of main().                   *)
(*                                                                         *)
(* Time is counted in whole hours.  Wall-clock hour 0 is local midnight of *)
(* 2024-10-27 in Europe/Berlin, the day summer time ends; UTC hour 0 is    *)
(* 2024-10-27T00:00Z.  A calendar date is a day number, wall \div 24.      *)
(* Text is a sequence of one-character strings, so that lower() and the    *)
(* `in` test on strings are computed and not assumed.                      *)
(***************************************************************************)
EXTENDS Integers, Sequences, FiniteSets, TLC

VARIABLES pc, log, args, entries, filtered_entries, console, stdout,
          export_file, daily_entries, popup, display, exit_code, opens,
          raw_time, timestamp

vars == <<pc, log, args, entries, filtered_entries, console, stdout,
          export_file, daily_entries, popup, display, exit_code, opens,
          raw_time, timestamp>>

(* ------------------------------------------------------------------ *)
(* Python values                                                      *)
(* ------------------------------------------------------------------ *)

\* None, and a value that is not None.
None == <<>>
Some(v) == <<v>>

\* The outcome of a call: a returned value or a raised exception.
Ok(v) == [ok |-> TRUE, val |-> v]
Raise(type, filename) == [ok |-> FALSE, exc |-> [type |-> type, filename |-> filename]]

Range(s) == {s[i] : i \in 1..Len(s)}

SeqsUpTo(S, n) == UNION {[1..k -> S] : k \in 0..n}

(* ------------------------------------------------------------------ *)
(* Config                                                             *)
(* ------------------------------------------------------------------ *)

LOG_PATH == "/var/log/pacman.log"

Actions == {"installed", "upgraded", "removed"}

\* The order of the keys of the count dictionaries.
ActionOrder == <<"installed", "upgraded", "removed">>

\* tzinfo values: the zone of Config.LOCAL_TZ, and the fixed offset %z yields.
LOCAL_TZ == [kind |-> "zone", off |-> 0]
FixedTz(off) == [kind |-> "fixed", off |-> off]
NaiveTz == [kind |-> "naive", off |-> 0]

\* Europe/Berlin around the end of summer time: UTC+2 (CEST) until
\* 2024-10-27T01:00Z, UTC+1 (CET) from then on.
CEST == 2
CET == 1
DstEndUtc == 1
HoursPerDay == 24

\* ZoneInfo.utcoffset of a wall-clock hour: the hour 02:00 happens twice, and
\* fold tells the first pass (CEST) from the second (CET).
LocalUtcOffset(wall, fold) ==
    IF wall < DstEndUtc + CET THEN CEST
    ELSE IF wall < DstEndUtc + CEST THEN (IF fold = 0 THEN CEST ELSE CET)
    ELSE CET

\* ZoneInfo.fromutc: the wall clock of a UTC hour.
LocalFromUtc(u) ==
    IF u < DstEndUtc
    THEN [wall |-> u + CEST, fold |-> 0, tz |-> LOCAL_TZ]
    ELSE [wall |-> u + CET,
          fold |-> IF u + CET < DstEndUtc + CEST THEN 1 ELSE 0,
          tz |-> LOCAL_TZ]

(* ------------------------------------------------------------------ *)
(* datetime                                                           *)
(* ------------------------------------------------------------------ *)

utcoffset(dt) ==
    IF dt.tz.kind = "fixed" THEN dt.tz.off ELSE LocalUtcOffset(dt.wall, dt.fold)

\* The UTC hour an aware datetime denotes.
Instant(dt) == dt.wall - utcoffset(dt)

\* datetime.astimezone(tz) for tz = LOCAL_TZ: unchanged when the datetime is
\* already in that zone, else through UTC.
astimezone(dt, tz) ==
    IF dt.tz = tz THEN dt ELSE LocalFromUtc(Instant(dt))

replace_tzinfo(dt, tz) == [dt EXCEPT !.tz = tz]

\* datetime.date() and strftime("%Y-%m-%d"): the calendar date of the wall clock.
DateOf(dt) == dt.wall \div HoursPerDay

\* strftime("%H:%M:%S"): the time of day of the wall clock.
TimeOf(dt) == dt.wall % HoursPerDay

\* datetime.__lt__: two datetimes of the same tzinfo compare by their wall
\* clock (fold is ignored), two of different tzinfo by their instant.
dt_lt(a, b) ==
    IF a.tz = b.tz THEN a.wall < b.wall ELSE Instant(a) < Instant(b)

\* A raw timestamp, the text between the brackets of a log line: the
\* Y-m-dTH:M:S fields (as a wall-clock hour) and the offset suffix, or text of
\* another shape.
RawIso(wall, off) == [shape |-> "iso", wall |-> wall, off |-> off]
RawGarbage == [shape |-> "garbage", wall |-> 0, off |-> None]

\* datetime.strptime(raw, "%Y-%m-%dT%H:%M:%S%z")
strptime_z(raw) ==
    IF raw.shape = "iso" /\ raw.off # None
    THEN Ok([wall |-> raw.wall, fold |-> 0, tz |-> FixedTz(raw.off[1])])
    ELSE Raise("ValueError", "")

\* datetime.strptime(raw, "%Y-%m-%dT%H:%M:%S")
strptime_naive(raw) ==
    IF raw.shape = "iso" /\ raw.off = None
    THEN Ok([wall |-> raw.wall, fold |-> 0, tz |-> NaiveTz])
    ELSE Raise("ValueError", "")

(* ------------------------------------------------------------------ *)
(* PacmanLogParser                                                    *)
(* ------------------------------------------------------------------ *)

\* A log line: [raw_time] [tag] keyword package (payload).  The payload is a
\* sequence of tokens, the token "->" standing for the text " -> ".
Line(raw, tag, keyword, package, payload) ==
    [raw_time |-> raw, tag |-> tag, keyword |-> keyword,
     package |-> package, payload |-> payload]

\* LOG_PATTERN without the literal [ALPM]: a line of any tag matches.
LOG_PATTERN_AnyTag(line) ==
    IF /\ line.keyword \in Actions
       /\ line.package # <<>>
       /\ " " \notin Range(line.package)
    THEN Some(<<line.raw_time, line.keyword, line.package, line.payload>>)
    ELSE None

\* Config.LOG_PATTERN.search(line): the four groups, or None.
LOG_PATTERN(line) ==
    IF /\ line.tag = "ALPM"
       /\ line.keyword \in Actions
       /\ line.package # <<>>
       /\ " " \notin Range(line.package)
    THEN Some(<<line.raw_time, line.keyword, line.package, line.payload>>)
    ELSE None

\* _parse_timestamp with the offset of the line thrown away: the zone is
\* attached to the wall clock as it stands, nothing is converted.
_parse_timestamp_ReplaceTz(raw) ==
    LET aware == strptime_z(raw)
        naive == strptime_naive(raw)
    IN  IF aware.ok
        THEN Ok(replace_tzinfo(aware.val, LOCAL_TZ))
        ELSE IF naive.ok
             THEN Ok(replace_tzinfo(naive.val, LOCAL_TZ))
             ELSE naive

\* PacmanLogParser._parse_timestamp
_parse_timestamp(raw) ==
    LET aware == strptime_z(raw)
        naive == strptime_naive(raw)
    IN  IF aware.ok
        THEN Ok(astimezone(aware.val, LOCAL_TZ))
        ELSE IF naive.ok
             THEN Ok(astimezone(replace_tzinfo(naive.val, LOCAL_TZ), LOCAL_TZ))
             ELSE naive

\* str.split(" -> ")
RECURSIVE split(_)
split(version) ==
    IF "->" \notin Range(version)
    THEN <<version>>
    ELSE LET i == CHOOSE j \in 1..Len(version) :
                      /\ version[j] = "->"
                      /\ \A k \in 1..(j - 1) : version[k] # "->"
         IN  <<SubSeq(version, 1, i - 1)>> \o split(SubSeq(version, i + 1, Len(version)))

\* PacmanLogParser._format_version; "U+2192" is the arrow of the formatted text.
_format_version(action, version) ==
    IF action = "upgraded"
    THEN LET parts == split(version)
         IN  IF Len(parts) = 2
             THEN Ok(parts[1] \o <<"U+2192">> \o parts[2])
             ELSE Raise("ValueError", "")
    ELSE Ok(version)

Entry(ts, action, package, version) ==
    [timestamp |-> ts, action |-> action, package |-> package, version |-> version]

\* The loop of parse_log over the lines of the file: the entries appended, or
\* the exception that left the loop.
RECURSIVE ScanLines(_, _)
ScanLines(lines, acc) ==
    IF lines = <<>>
    THEN Ok(acc)
    ELSE LET match == LOG_PATTERN(Head(lines))
         IN  IF match = None
             THEN ScanLines(Tail(lines), acc)
             ELSE LET ts == _parse_timestamp(match[1][1])
                      version_str == _format_version(match[1][2], match[1][4])
                  IN  IF ~ts.ok THEN ts
                      ELSE IF ~version_str.ok THEN version_str
                      ELSE ScanLines(Tail(lines),
                               Append(acc, Entry(ts.val, match[1][2], match[1][3],
                                                 version_str.val)))

\* An ascending sort read backwards: an entry is placed before the entries of
\* its own timestamp, so ties come out in reverse file order.
InsertDescending_TiesReversed(acc, e) ==
    LET k == Cardinality({i \in 1..Len(acc) : dt_lt(e.timestamp, acc[i].timestamp)})
    IN  SubSeq(acc, 1, k) \o <<e>> \o SubSeq(acc, k + 1, Len(acc))

\* sorted(entries, key=lambda x: x[0], reverse=True): a stable sort, an entry is
\* placed behind every entry whose timestamp is not less than its own.
InsertDescending(acc, e) ==
    LET k == Cardinality({i \in 1..Len(acc) : ~dt_lt(acc[i].timestamp, e.timestamp)})
    IN  SubSeq(acc, 1, k) \o <<e>> \o SubSeq(acc, k + 1, Len(acc))

RECURSIVE sorted_reverse(_)
sorted_reverse(s) ==
    IF s = <<>>
    THEN <<>>
    ELSE InsertDescending(sorted_reverse(SubSeq(s, 1, Len(s) - 1)), s[Len(s)])

\* open(path, "r"): the file object or the OSError.
open_read(file) ==
    CASE file.status = "ok"      -> Ok(file.lines)
      [] file.status = "missing" -> Raise("FileNotFoundError", file.path)
      [] file.status = "denied"  -> Raise("PermissionError", file.path)
      [] OTHER                   -> Raise("IsADirectoryError", file.path)

\* A line of text printed for the user: what it says, the path it names and
\* the exception it shows.
Message(text, path, exc) == [text |-> text, path |-> path, exc |-> exc]

\* PacmanLogParser.parse_log: the list returned and the messages printed.
parse_log(file) ==
    LET f == open_read(file)
        scan == IF f.ok THEN ScanLines(f.val, <<>>) ELSE f
    IN  IF scan.ok
        THEN [ret |-> sorted_reverse(scan.val), printed |-> <<>>]
        ELSE CASE scan.exc.type = "FileNotFoundError" ->
                    [ret |-> <<>>,
                     printed |-> <<Message("Error: Log file not found at", file.path, "")>>]
               [] scan.exc.type = "PermissionError" ->
                    [ret |-> <<>>,
                     printed |-> <<Message("Error: Permission denied reading", file.path, "")>>]
               [] OTHER ->
                    [ret |-> <<>>,
                     printed |-> <<Message("Error reading log file:", scan.exc.filename,
                                           scan.exc.type)>>]

(* ------------------------------------------------------------------ *)
(* Inputs                                                             *)
(* ------------------------------------------------------------------ *)

MaxLines == 3

libfoo == <<"l", "i", "b", "f", "o", "o">>
LIBBAR == <<"L", "I", "B", "B", "A", "R">>
other == <<"o", "t", "h", "e", "r">>

\* Raw timestamps: without an offset, with +0000, +0100 and +0200, and garbage.
RawWalls == {-1, 0, 1, 2, 3, 26}
RawOffsets == {None, Some(0), Some(CET), Some(CEST)}
RawTimes == {RawIso(w, o) : w \in RawWalls, o \in RawOffsets} \cup {RawGarbage}

\* Lines of a log: well-formed ones (two of them the same instant written with
\* different offsets, one at the same local hour without an offset), lines
\* whose timestamp or payload does not decode, and lines of another shape.
ParseLines ==
    { Line(RawIso(1, None), "ALPM", "installed", libfoo, <<"1.0">>),
      Line(RawIso(-1, Some(0)), "ALPM", "removed", LIBBAR, <<"1.0">>),
      Line(RawIso(0, Some(CET)), "ALPM", "upgraded", other, <<"1.0", "->", "2.0">>),
      Line(RawIso(26, None), "ALPM", "installed", other, <<"2.0">>),
      Line(RawIso(2, None), "ALPM", "installed", LIBBAR, <<"2.0">>),
      Line(RawIso(2, Some(CET)), "ALPM", "removed", other, <<"2.0">>),
      Line(RawGarbage, "ALPM", "installed", libfoo, <<"1.0">>),
      Line(RawIso(1, None), "ALPM", "upgraded", libfoo, <<"1.0">>),
      Line(RawIso(1, None), "ALPM", "upgraded", libfoo, <<"1.0", "->", "2.0", "->", "3.0">>),
      Line(RawIso(26, None), "PACMAN", "installed", libfoo, <<"1.0">>),
      Line(RawIso(26, None), "ALPM", "reinstalled", libfoo, <<"1.0">>) }

LogFile(status, lines) == [path |-> LOG_PATH, status |-> status, lines |-> lines]

ParseLogs ==
    {LogFile("ok", l) : l \in SeqsUpTo(ParseLines, MaxLines)}
        \cup {LogFile(s, <<>>) : s \in {"missing", "denied", "isdir"}}

NoArgs ==
    [start_date |-> None, end_date |-> None, package |-> None, operation |-> None,
     limit |-> None, export |-> None, no_notifications |-> FALSE]

NoFile == [exists |-> FALSE, header |-> FALSE, sections |-> <<>>, overall |-> None]

(* ------------------------------------------------------------------ *)
(* The parser on its own: parse_log and _parse_timestamp called once. *)
(* ------------------------------------------------------------------ *)

InitParse ==
    /\ pc = "call"
    /\ log \in ParseLogs
    /\ args = NoArgs
    /\ entries = <<>>
    /\ filtered_entries = <<>>
    /\ console = <<>>
    /\ stdout = <<>>
    /\ export_file = NoFile
    /\ daily_entries = <<>>
    /\ popup = None
    /\ display = <<>>
    /\ exit_code = None
    /\ opens = 0
    /\ raw_time = None
    /\ timestamp = None

CallParseLog ==
    /\ pc = "call"
    /\ LET r == parse_log(log)
       IN  /\ entries' = r.ret
           /\ console' = console \o r.printed
    /\ opens' = opens + 1
    /\ pc' = "parse_log returned"
    /\ UNCHANGED <<log, popup, args, filtered_entries, stdout, export_file, daily_entries,
                   display, exit_code, raw_time, timestamp>>

CallParseTimestamp ==
    /\ pc = "call"
    /\ \E raw \in RawTimes :
          /\ raw_time' = Some(raw)
          /\ timestamp' = Some(_parse_timestamp(raw))
    /\ pc' = "_parse_timestamp returned"
    /\ UNCHANGED <<log, popup, args, entries, filtered_entries, console, stdout, export_file,
                   daily_entries, display, exit_code, opens>>

NextParse == CallParseLog \/ CallParseTimestamp

SpecParse == InitParse /\ [][NextParse]_vars

(* ------------------------------------------------------------------ *)
(* filter_entries                                                     *)
(* ------------------------------------------------------------------ *)

UpperCase == <<"A", "B", "C", "D", "E", "F", "G", "H", "I", "J", "K", "L", "M",
               "N", "O", "P", "Q", "R", "S", "T", "U", "V", "W", "X", "Y", "Z">>
LowerCase == <<"a", "b", "c", "d", "e", "f", "g", "h", "i", "j", "k", "l", "m",
               "n", "o", "p", "q", "r", "s", "t", "u", "v", "w", "x", "y", "z">>

\* str.lower()
lower(s) ==
    [i \in 1..Len(s) |->
        IF \E k \in 1..Len(UpperCase) : UpperCase[k] = s[i]
        THEN LowerCase[CHOOSE k \in 1..Len(UpperCase) : UpperCase[k] = s[i]]
        ELSE s[i]]

\* needle in hay, for strings
contains(hay, needle) ==
    \E i \in 0..(Len(hay) - Len(needle)) : SubSeq(hay, i + 1, i + Len(needle)) = needle

\* The slice s[:n]
SliceTo(s, n) ==
    IF n >= 0
    THEN SubSeq(s, 1, IF n < Len(s) THEN n ELSE Len(s))
    ELSE SubSeq(s, 1, IF Len(s) + n > 0 THEN Len(s) + n ELSE 0)

\* The package test without lower(): the substring is matched case-sensitively.
Keeps_CaseSensitive(entry, start_date, end_date, package, operation) ==
    /\ ~(start_date # None /\ DateOf(entry.timestamp) < start_date[1])
    /\ ~(end_date # None /\ DateOf(entry.timestamp) > end_date[1])
    /\ ~(package # None /\ package[1] # <<>>
            /\ ~contains(entry.package, package[1]))
    /\ ~(operation # None /\ operation[1] # "" /\ entry.action # operation[1])

\* The test of the loop of filter_entries: the entry is appended.
Keeps(entry, start_date, end_date, package, operation) ==
    /\ ~(start_date # None /\ DateOf(entry.timestamp) < start_date[1])
    /\ ~(end_date # None /\ DateOf(entry.timestamp) > end_date[1])
    /\ ~(package # None /\ package[1] # <<>>
            /\ ~contains(lower(entry.package), lower(package[1])))
    /\ ~(operation # None /\ operation[1] # "" /\ entry.action # operation[1])

filter_entries(es, start_date, end_date, package, operation, limit) ==
    LET Kept(entry) == Keeps(entry, start_date, end_date, package, operation)
        filtered == SelectSeq(es, Kept)
    IN  IF limit # None /\ limit[1] # 0
        THEN SliceTo(filtered, limit[1])
        ELSE filtered

(* ------------------------------------------------------------------ *)
(* HistoryExporter                                                    *)
(* ------------------------------------------------------------------ *)

\* sorted(daily_entries.keys()) without reverse=True: the oldest date first.
RECURSIVE sorted_dates_Ascending(_)
sorted_dates_Ascending(keys) ==
    IF keys = {}
    THEN <<>>
    ELSE LET oldest == CHOOSE d \in keys : \A x \in keys : d <= x
         IN  <<oldest>> \o sorted_dates_Ascending(keys \ {oldest})

\* sorted(daily_entries.keys(), reverse=True); the keys are the %Y-%m-%d
\* texts, whose order as text is the order of the dates.
RECURSIVE sorted_dates(_)
sorted_dates(keys) ==
    IF keys = {}
    THEN <<>>
    ELSE LET latest == CHOOSE d \in keys : \A x \in keys : x <= d
         IN  <<latest>> \o sorted_dates(keys \ {latest})

\* The grouping with `daily_entries[date_str] = [entry]` for the append: a
\* date keeps its last entry only.
Exporter_group_entries_by_date_Overwrite(es) ==
    [date_str \in {DateOf(es[i].timestamp) : i \in 1..Len(es)} |->
        LET OnDate(e) == DateOf(e.timestamp) = date_str
            on_date == SelectSeq(es, OnDate)
        IN  <<on_date[Len(on_date)]>>]

\* HistoryExporter._group_entries_by_date: the dictionary from date to the
\* entries of that date, in the order they were appended.
Exporter_group_entries_by_date(es) ==
    [date_str \in {DateOf(es[i].timestamp) : i \in 1..Len(es)} |->
        LET OnDate(e) == DateOf(e.timestamp) = date_str IN SelectSeq(es, OnDate)]

\* daily_counts / total_counts after the loop over the entries.
CountActions(es) ==
    [act \in Actions |-> Cardinality({i \in 1..Len(es) : es[i].action = act})]

\* The lines "<icon> <Action>: <count>" of a summary, in key order, those of
\* count 0 left out or not.
RECURSIVE SummaryLines(_, _, _)
SummaryLines(counts, keys, with_zero) ==
    IF keys = <<>>
    THEN <<>>
    ELSE (IF with_zero \/ counts[Head(keys)] > 0
          THEN <<[action |-> Head(keys), count |-> counts[Head(keys)]]>>
          ELSE <<>>) \o SummaryLines(counts, Tail(keys), with_zero)

\* A line "HH:MM:SS | ACTION | package | version" of a date section.
Row(e) ==
    [time |-> TimeOf(e.timestamp), action |-> e.action, package |-> e.package,
     version |-> e.version]

\* HistoryExporter._write_date_section: the text of one date section.
_write_date_section(date_str, day_entries) ==
    [date |-> date_str,
     rows |-> [i \in 1..Len(day_entries) |-> Row(day_entries[i])],
     daily_counts |-> CountActions(day_entries),
     summary |-> SummaryLines(CountActions(day_entries), ActionOrder, FALSE)]

\* The dictionary of _write_entries once every day_entries list is sorted.
Exporter_sorted_daily_entries(es) ==
    LET daily == Exporter_group_entries_by_date(es)
    IN  [date_str \in DOMAIN daily |-> sorted_reverse(daily[date_str])]

\* HistoryExporter._write_entries: the date sections written, in order.
_write_entries(es) ==
    LET daily == Exporter_sorted_daily_entries(es)
        dates == sorted_dates(DOMAIN daily)
    IN  [k \in 1..Len(dates) |-> _write_date_section(dates[k], daily[dates[k]])]

\* The overall summary written like the daily one, with `if count > 0`.
_write_overall_summary_OmitZero(es) == SummaryLines(CountActions(es), ActionOrder, FALSE)

\* HistoryExporter._write_overall_summary: the lines under OVERALL SUMMARY.
_write_overall_summary(es) == SummaryLines(CountActions(es), ActionOrder, TRUE)

DEFAULT_FILENAME == "~/Documents/pacman_history.txt"

\* Where a write of the export can fail: nowhere, at open(), or inside one of
\* the three writers (the text of the writers before it is in the file).
WriteFaults == {"none", "open", "header", "entries", "summary"}

\* HistoryExporter.save_to_text_file: the file left behind, the value returned
\* or the exception raised again, and the message printed.
save_to_text_file(es, filename, fault) ==
    LET path == IF filename = None THEN DEFAULT_FILENAME ELSE filename[1]
        file == [exists |-> fault # "open",
                 header |-> fault \in {"none", "entries", "summary"},
                 sections |-> IF fault \in {"none", "summary"}
                              THEN _write_entries(es) ELSE <<>>,
                 overall |-> IF fault = "none"
                             THEN Some(_write_overall_summary(es)) ELSE None]
    IN  [file |-> file,
         daily |-> IF fault \in {"none", "summary"}
                   THEN Exporter_sorted_daily_entries(es) ELSE <<>>,
         result |-> IF fault = "none" THEN Ok(path) ELSE Raise("OSError", path),
         printed |-> IF fault = "none" THEN <<>>
                     ELSE <<Message("Error saving file:", path, "OSError")>>]

(* ------------------------------------------------------------------ *)
(* HistoryDisplay                                                     *)
(* ------------------------------------------------------------------ *)

\* HistoryDisplay._group_entries_by_date
Display_group_entries_by_date(es) ==
    [date_str \in {DateOf(es[i].timestamp) : i \in 1..Len(es)} |->
        LET OnDate(e) == DateOf(e.timestamp) = date_str IN SelectSeq(es, OnDate)]

\* HistoryDisplay._display_date_section: the date panel, the table and the
\* summary panel, which is printed when a count is positive.
_display_date_section(date_str, day_entries) ==
    [date |-> date_str,
     rows |-> [i \in 1..Len(day_entries) |-> Row(day_entries[i])],
     daily_counts |-> CountActions(day_entries),
     summary |-> SummaryLines(CountActions(day_entries), ActionOrder, FALSE)]

\* HistoryDisplay.display_updates: the sections shown and the message printed.
display_updates(es) ==
    IF es = <<>>
    THEN [shown |-> <<>>,
          printed |-> <<Message("No package changes found in pacman.log.", "", "")>>]
    ELSE LET daily == Display_group_entries_by_date(es)
             dates == sorted_dates(DOMAIN daily)
         IN  [shown |-> [k \in 1..Len(dates) |->
                            _display_date_section(dates[k],
                                                  sorted_reverse(daily[dates[k]]))],
              printed |-> <<>>]

(* ------------------------------------------------------------------ *)
(* The filter on its own: filter_entries called once on any sequence. *)
(* ------------------------------------------------------------------ *)

MaxFilterEvents == 3

LocalTime(wall) == [wall |-> wall, fold |-> 0, tz |-> LOCAL_TZ]

FilterEvents ==
    { Entry(LocalTime(1), "installed", libfoo, <<"1.0">>),
      Entry(LocalTime(3), "upgraded", LIBBAR, <<"1.0", "U+2192", "2.0">>),
      Entry(LocalTime(26), "installed", other, <<"2.0">>),
      Entry(LocalTime(26), "removed", libfoo, <<"1.0">>),
      Entry(LocalTime(1), "upgraded", other, <<"1.0", "U+2192", "2.0">>),
      Entry(LocalTime(50), "installed", LIBBAR, <<"2.0">>) }

\* --limit is read by int(): any integer, also zero and the negative ones.
Limits == {None, Some(-1), Some(0), Some(1), Some(2)}

FilterArgs ==
    [start_date : {None, Some(1)},
     end_date : {None, Some(1)},
     package : {None, Some(<<>>), Some(<<"l", "i", "b">>)},
     operation : {None, Some("installed")},
     limit : Limits,
     export : {None},
     no_notifications : {FALSE}]

InitFilter ==
    /\ pc = "call"
    /\ log = LogFile("ok", <<>>)
    /\ args \in FilterArgs
    /\ entries \in SeqsUpTo(FilterEvents, MaxFilterEvents)
    /\ filtered_entries = <<>>
    /\ console = <<>>
    /\ stdout = <<>>
    /\ export_file = NoFile
    /\ daily_entries = <<>>
    /\ popup = None
    /\ display = <<>>
    /\ exit_code = None
    /\ opens = 0
    /\ raw_time = None
    /\ timestamp = None

CallFilterEntries ==
    /\ pc = "call"
    /\ filtered_entries' = filter_entries(entries, args.start_date, args.end_date,
                                          args.package, args.operation, args.limit)
    /\ pc' = "filter_entries returned"
    /\ UNCHANGED <<log, popup, args, entries, console, stdout, export_file, daily_entries,
                   display, exit_code, opens, raw_time, timestamp>>

NextFilter == CallFilterEntries

SpecFilter == InitFilter /\ [][NextFilter]_vars

(* ------------------------------------------------------------------ *)
(* The exporter and the display on their own, on any sequence of      *)
(* entries, sorted or not.                                            *)
(* ------------------------------------------------------------------ *)

MaxRenderEvents == 3

RenderEvents == FilterEvents

InitRender ==
    /\ pc = "call"
    /\ log = LogFile("ok", <<>>)
    /\ args = NoArgs
    /\ entries \in SeqsUpTo(RenderEvents, MaxRenderEvents)
    /\ filtered_entries = <<>>
    /\ console = <<>>
    /\ stdout = <<>>
    /\ export_file = NoFile
    /\ daily_entries = <<>>
    /\ popup = None
    /\ display = <<>>
    /\ exit_code = None
    /\ opens = 0
    /\ raw_time = None
    /\ timestamp = None

CallSaveToTextFile ==
    /\ pc = "call"
    /\ \E fault \in WriteFaults, filename \in {None, Some("history.txt")} :
          LET r == save_to_text_file(entries, filename, fault)
          IN  /\ export_file' = r.file
              /\ daily_entries' = r.daily
              /\ console' = console \o r.printed
              /\ pc' = IF r.result.ok THEN "save_to_text_file returned"
                                      ELSE "save_to_text_file raised"
    /\ UNCHANGED <<log, popup, args, entries, filtered_entries, stdout, display, exit_code,
                   opens, raw_time, timestamp>>

CallDisplayUpdates ==
    /\ pc \in {"call", "save_to_text_file returned"}
    /\ LET r == display_updates(entries)
       IN  /\ display' = r.shown
           /\ console' = console \o r.printed
    /\ pc' = "display_updates returned"
    /\ UNCHANGED <<log, popup, args, entries, filtered_entries, stdout, export_file,
                   daily_entries, exit_code, opens, raw_time, timestamp>>

NextRender == CallSaveToTextFile \/ CallDisplayUpdates

SpecRender == InitRender /\ [][NextRender]_vars

(* ------------------------------------------------------------------ *)
(* NotificationManager                                                *)
(* ------------------------------------------------------------------ *)

\* os.path.abspath of a relative file name.
abspath(filename) == "/cwd/" \o filename

\* How a popup can go: zenity is there, or Tkinter and a display are, or
\* neither; the user picks "Open file" or "Ok", or presses Ctrl-C while the
\* popup waits; xdg-open starts or does not.
PopupWays ==
    [via : {"zenity", "tkinter", "console"}, open : BOOLEAN, xdg_ok : BOOLEAN,
     ctrl_c : BOOLEAN]

\* NotificationManager.show_popup: the popup shown, the messages printed, and
\* whether it returns or a KeyboardInterrupt leaves it: `except Exception` in
\* _try_zenity_popup and _try_tkinter_popup does not catch that one.
show_popup(filename, way) ==
    LET abs_path == abspath(filename)
    IN  CASE way.via \in {"zenity", "tkinter"} /\ way.ctrl_c ->
                [popup |-> Some([via |-> way.via, path |-> abs_path, opened |-> FALSE]),
                 printed |-> <<>>,
                 result |-> Raise("KeyboardInterrupt", "")]
          [] way.via = "zenity" /\ ~way.ctrl_c ->
                [popup |-> Some([via |-> "zenity", path |-> abs_path, opened |-> way.open]),
                 printed |-> IF way.open /\ ~way.xdg_ok
                             THEN <<Message("Warning: Could not open file:", "", "OSError")>>
                             ELSE <<>>,
                 result |-> Ok(None)]
          [] way.via = "tkinter" /\ ~way.ctrl_c ->
                [popup |-> Some([via |-> "tkinter", path |-> abs_path, opened |-> way.open]),
                 printed |-> <<>>,
                 result |-> Ok(None)]
          [] OTHER ->
                [popup |-> None,
                 printed |-> <<Message("History saved to:", abs_path, ""),
                               Message("To open the file: xdg-open", abs_path, "")>>,
                 result |-> Ok(None)]

(* ------------------------------------------------------------------ *)
(* main                                                               *)
(* ------------------------------------------------------------------ *)

MaxRunLines == 2

\* The text of a --start-date / --end-date option: a date or something else.
DateText(day) == [shape |-> "date", day |-> day]
BadDateText == [shape |-> "garbage", day |-> 0]

\* datetime.strptime(text, "%Y-%m-%d").date() if text else None
parse_date_arg(opt) ==
    IF opt = None THEN Ok(None)
    ELSE IF opt[1].shape = "date" THEN Ok(Some(opt[1].day))
    ELSE Raise("ValueError", "")

RunLines ==
    { Line(RawIso(1, None), "ALPM", "installed", libfoo, <<"1.0">>),
      Line(RawIso(3, None), "ALPM", "removed", LIBBAR, <<"1.0">>),
      Line(RawIso(26, None), "ALPM", "upgraded", other, <<"1.0", "->", "2.0">>),
      Line(RawIso(26, None), "PACMAN", "installed", libfoo, <<"1.0">>),
      Line(RawGarbage, "ALPM", "installed", libfoo, <<"1.0">>) }

RunLogs ==
    {LogFile("ok", l) : l \in SeqsUpTo(RunLines, MaxRunLines)}
        \cup {LogFile(s, <<>>) : s \in {"missing", "denied", "isdir"}}

\* What argparse hands to main.
RunArgs ==
    [start_date : {None, Some(DateText(1)), Some(BadDateText)},
     end_date : {None, Some(DateText(0))},
     package : {None, Some(<<"l", "i", "b">>)},
     operation : {None, Some("removed")},
     limit : {None, Some(-1), Some(0), Some(1)},
     export : {None, Some("history.txt")},
     no_notifications : BOOLEAN]

Init ==
    /\ pc = "parse"
    /\ log \in RunLogs
    /\ args \in RunArgs
    /\ entries = <<>>
    /\ filtered_entries = <<>>
    /\ console = <<>>
    /\ stdout = <<>>
    /\ export_file = NoFile
    /\ daily_entries = <<>>
    /\ popup = None
    /\ display = <<>>
    /\ exit_code = None
    /\ opens = 0
    /\ raw_time = None
    /\ timestamp = None

\* main without `if not entries: ... return`: the run goes on with no entries.
MainParse_NoEarlyReturn ==
    /\ pc = "parse"
    /\ LET r == parse_log(log)
       IN  /\ entries' = r.ret
           /\ console' = console \o r.printed
           /\ pc' = "filter"
    /\ opens' = opens + 1
    /\ UNCHANGED <<log, popup, args, filtered_entries, stdout, export_file, daily_entries,
                   display, exit_code, raw_time, timestamp>>

\* main, lines 480-485: the log is parsed; with no entries the run ends here.
MainParse ==
    /\ pc = "parse"
    /\ LET r == parse_log(log)
       IN  /\ entries' = r.ret
           /\ console' = console \o r.printed
           /\ IF r.ret = <<>>
              THEN /\ stdout' = Append(stdout,
                           Message("No package changes found in pacman.log", "", ""))
                   /\ pc' = "done"
                   /\ exit_code' = Some(0)
              ELSE /\ pc' = "filter"
                   /\ UNCHANGED <<stdout, exit_code>>
    /\ opens' = opens + 1
    /\ UNCHANGED <<log, popup, args, filtered_entries, export_file, daily_entries,
                   display, raw_time, timestamp>>

\* main, lines 488-495: the date options are parsed and the entries filtered;
\* a date that does not parse ends the run with exit status 1.
MainFilter ==
    /\ pc = "filter"
    /\ LET start_date == parse_date_arg(args.start_date)
           end_date == parse_date_arg(args.end_date)
       IN  IF start_date.ok /\ end_date.ok
           THEN /\ filtered_entries' =
                       filter_entries(entries, start_date.val, end_date.val,
                                      args.package, args.operation, args.limit)
                /\ pc' = IF args.export # None /\ args.export[1] # ""
                         THEN "export" ELSE "display"
                /\ UNCHANGED <<stdout, exit_code>>
           ELSE /\ stdout' = Append(stdout, Message("An error occurred:", "", "ValueError"))
                /\ exit_code' = Some(1)
                /\ pc' = "done"
                /\ UNCHANGED filtered_entries
    /\ UNCHANGED <<log, popup, args, entries, console, export_file, daily_entries,
                   display, opens, raw_time, timestamp>>

\* main going on after a failed write: the exception of save_to_text_file is
\* dropped and the run proceeds to the display with the filtered entries.
MainExport_ContinueAfterFailure ==
    /\ pc = "export"
    /\ \E fault \in WriteFaults :
          LET r == save_to_text_file(filtered_entries, args.export, fault)
          IN  /\ export_file' = r.file
              /\ daily_entries' = r.daily
              /\ console' = console \o r.printed
              /\ pc' = IF r.result.ok THEN "notify" ELSE "display"
    /\ UNCHANGED <<log, popup, args, entries, filtered_entries, display, opens,
                   raw_time, timestamp, stdout, exit_code>>

\* main, lines 498-500: the export is written; a failed write ends the run
\* with exit status 1.
MainExport ==
    /\ pc = "export"
    /\ \E fault \in WriteFaults :
          LET r == save_to_text_file(filtered_entries, args.export, fault)
          IN  /\ export_file' = r.file
              /\ daily_entries' = r.daily
              /\ console' = console \o r.printed
              /\ IF r.result.ok
                 THEN /\ pc' = "notify"
                      /\ UNCHANGED <<stdout, exit_code>>
                 ELSE /\ stdout' = Append(stdout,
                              Message("An error occurred:", r.result.exc.filename,
                                      r.result.exc.type))
                      /\ exit_code' = Some(1)
                      /\ pc' = "done"
    /\ UNCHANGED <<log, popup, args, entries, filtered_entries, display, opens,
                   raw_time, timestamp>>

\* main, lines 501-505 and 511-512: the popup, or the line on standard
\* output; a KeyboardInterrupt out of the popup ends the run: main prints the
\* cancellation and returns, so the exit status is 0.
MainNotify ==
    /\ pc = "notify"
    /\ IF ~args.no_notifications
       THEN \E way \in PopupWays :
               LET r == show_popup(args.export[1], way)
               IN  /\ popup' = r.popup
                   /\ console' = console \o r.printed
                   /\ IF r.result.ok
                      THEN /\ pc' = "display"
                           /\ UNCHANGED <<stdout, exit_code>>
                      ELSE /\ stdout' = Append(stdout,
                                   Message("Operation cancelled by user", "", ""))
                           /\ exit_code' = Some(0)
                           /\ pc' = "done"
       ELSE /\ stdout' = Append(stdout, Message("History saved to:", args.export[1], ""))
            /\ pc' = "display"
            /\ UNCHANGED <<popup, console, exit_code>>
    /\ UNCHANGED <<log, args, entries, filtered_entries, export_file, daily_entries,
                   display, opens, raw_time, timestamp>>

\* main, lines 508-509: the filtered entries are shown; the run ends.
MainDisplay ==
    /\ pc = "display"
    /\ LET r == display_updates(filtered_entries)
       IN  /\ display' = r.shown
           /\ console' = console \o r.printed
    /\ pc' = "done"
    /\ exit_code' = Some(0)
    /\ UNCHANGED <<log, popup, args, entries, filtered_entries, stdout, export_file,
                   daily_entries, opens, raw_time, timestamp>>

Next == MainParse \/ MainFilter \/ MainExport \/ MainNotify \/ MainDisplay

Spec == Init /\ [][Next]_vars

(* ------------------------------------------------------------------ *)
(* Properties of the parser                                           *)
(* ------------------------------------------------------------------ *)

\* The shape of section 4.1: a bracketed timestamp, the [ALPM] tag, one of the
\* three action keywords, a package token without whitespace, a payload.
ShapeMatches(line) ==
    /\ line.tag = "ALPM"
    /\ line.keyword \in {"installed", "upgraded", "removed"}
    /\ line.package # <<>>
    /\ \A i \in 1..Len(line.package) : line.package[i] # " "

\* A matching line whose timestamp and payload both decode, and its event.
Decodes(line) ==
    /\ ShapeMatches(line)
    /\ _parse_timestamp(line.raw_time).ok
    /\ _format_version(line.keyword, line.payload).ok

EventOf(line) ==
    Entry(_parse_timestamp(line.raw_time).val, line.keyword, line.package,
          _format_version(line.keyword, line.payload).val)

Occurrences(s, x) == Cardinality({i \in 1..Len(s) : s[i] = x})

\* C1: a matching line whose timestamp or payload does not decode is the only
\* line dropped: whatever else the log holds, the event of every line that
\* does decode is in the sequence parse_log returns.
C1_DecodeErrorDropsOnlyItsLine ==
    (pc = "parse_log returned" /\ log.status = "ok")
        => \A i \in 1..Len(log.lines) :
              Decodes(log.lines[i]) => EventOf(log.lines[i]) \in Range(entries)

C6_OnlyMatchingLinesYieldEvents ==
    (pc = "parse_log returned" /\ log.status = "ok")
        => /\ \A e \in Range(entries) :
                 Occurrences(entries, e) <=
                     Cardinality({i \in 1..Len(log.lines) :
                                     /\ Decodes(log.lines[i])
                                     /\ EventOf(log.lines[i]) = e})
           /\ LET without == parse_log(LogFile("ok", SelectSeq(log.lines, ShapeMatches)))
              IN  entries = without.ret /\ console = without.printed

\* A log with a line of another tag, a line of another keyword and one
\* matching line, which is the one event returned.
C6_Witness ==
    /\ pc = "parse_log returned"
    /\ Len(log.lines) = 3
    /\ \E i, j \in 1..3 : /\ log.lines[i].tag # "ALPM"
                          /\ log.lines[j].keyword \notin Actions
                          /\ log.lines[j].tag = "ALPM"
    /\ Len(entries) = 1
    /\ console = <<>>

\* C7: an accepted raw timestamp comes back in the canonical zone: one with an
\* offset as the same instant on the zone's wall clock, one without an offset
\* with its wall-clock fields kept; two raw timestamps that denote one instant
\* with different offsets get equal timestamps of one calendar date.
C7_TimestampInCanonicalZone ==
    (pc = "_parse_timestamp returned" /\ timestamp[1].ok)
        => LET raw == raw_time[1]
               ts == timestamp[1].val
           IN  /\ ts.tz = LOCAL_TZ
               /\ raw.off # None
                     => LET u == raw.wall - raw.off[1]
                        IN  /\ Instant(ts) = u
                            /\ u < DstEndUtc => ts.wall = u + CEST
                            /\ u >= DstEndUtc => ts.wall = u + CET
               /\ raw.off = None => (ts.wall = raw.wall /\ ts.fold = 0)
               /\ \A r2 \in RawTimes :
                     (/\ r2.shape = "iso" /\ r2.off # None /\ raw.off # None
                      /\ r2.wall - r2.off[1] = raw.wall - raw.off[1])
                         => /\ _parse_timestamp(r2).val = ts
                            /\ DateOf(_parse_timestamp(r2).val) = DateOf(ts)

\* A raw timestamp with offset +0000 on the evening of one day, which is a
\* timestamp of the next calendar date in the canonical zone, and another raw
\* timestamp of the same instant with another offset.
C7_Witness ==
    /\ pc = "_parse_timestamp returned"
    /\ timestamp[1].ok
    /\ raw_time[1].off = Some(0)
    /\ DateOf(timestamp[1].val) # raw_time[1].wall \div HoursPerDay
    /\ \E r2 \in RawTimes : /\ r2.shape = "iso" /\ r2.off \notin {None, Some(0)}
                            /\ r2.wall - r2.off[1] = raw_time[1].wall

(* ------------------------------------------------------------------ *)
(* Properties of the filter                                           *)
(* ------------------------------------------------------------------ *)

RECURSIVE IsSubsequence(_, _)
IsSubsequence(a, b) ==
    IF a = <<>> THEN TRUE
    ELSE IF b = <<>> THEN FALSE
    ELSE IF Head(a) = Head(b) THEN IsSubsequence(Tail(a), Tail(b))
    ELSE IsSubsequence(a, Tail(b))

\* The four predicates of section 4.5, each binding only when supplied.
Satisfies(e, start_date, end_date, package, operation) ==
    /\ start_date # None => DateOf(e.timestamp) >= start_date[1]
    /\ end_date # None => DateOf(e.timestamp) <= end_date[1]
    /\ package # None => contains(lower(e.package), lower(package[1]))
    /\ operation # None => e.action = operation[1]

SatisfiesSupplied(e) ==
    Satisfies(e, args.start_date, args.end_date, args.package, args.operation)

\* C3: the output of filter_entries is a subsequence of the input in the
\* input's order, every event in it satisfies the supplied date, package and
\* action predicates, and an event is left out only when it violates one of
\* them or, a cap being supplied, when it lies behind every event kept.
C3_FilterIsOrderedSubsetByPredicates ==
    pc = "filter_entries returned"
        => /\ IsSubsequence(filtered_entries, entries)
           /\ \A i \in 1..Len(filtered_entries) : SatisfiesSupplied(filtered_entries[i])
           /\ LET survivors == SelectSeq(entries, SatisfiesSupplied)
              IN  /\ args.limit = None => filtered_entries = survivors
                  /\ args.limit # None
                        => /\ Len(filtered_entries) <= Len(survivors)
                           /\ filtered_entries = SubSeq(survivors, 1, Len(filtered_entries))

\* package="lib" over libfoo, LIBBAR and other: the first two are kept, in
\* their order, and other is left out.
C3_Witness ==
    /\ pc = "filter_entries returned"
    /\ args.package = Some(<<"l", "i", "b">>)
    /\ args.limit = None
    /\ Len(entries) = 3
    /\ entries[1].package = LIBBAR
    /\ entries[2].package = other
    /\ entries[3].package = libfoo
    /\ filtered_entries = <<entries[1], entries[3]>>

(* ------------------------------------------------------------------ *)
(* Properties of the exporter and the display                         *)
(* ------------------------------------------------------------------ *)

RECURSIVE SumDailyCounts(_, _)
SumDailyCounts(sections, act) ==
    IF sections = <<>> THEN 0
    ELSE Head(sections).daily_counts[act] + SumDailyCounts(Tail(sections), act)

RECURSIVE SumLengths(_, _)
SumLengths(f, dates) ==
    IF dates = {} THEN 0
    ELSE LET d == CHOOSE x \in dates : TRUE
         IN  Len(f[d]) + SumLengths(f, dates \ {d})

\* The export has been written to its end.
ExportWritten == export_file.exists /\ export_file.overall # None

\* C5: the exporter's grouping puts every input event in exactly one bucket,
\* that of the calendar date of its timestamp, none lost and none twice; and
\* for each action kind the per-date tallies add up to the overall tally of
\* the overall summary.
C5_GroupingPartitionsAndTalliesAddUp ==
    ExportWritten
        => /\ \A i \in 1..Len(entries) : DateOf(entries[i].timestamp) \in DOMAIN daily_entries
           /\ \A e \in Range(entries) : \A d \in DOMAIN daily_entries :
                 Occurrences(daily_entries[d], e) =
                     IF d = e.timestamp.wall \div HoursPerDay
                     THEN Occurrences(entries, e) ELSE 0
           /\ SumLengths(daily_entries, DOMAIN daily_entries) = Len(entries)
           /\ Len(export_file.sections) = Cardinality(DOMAIN daily_entries)
           /\ \A act \in {"installed", "upgraded", "removed"} :
                 \E k \in 1..Len(export_file.overall[1]) :
                    /\ export_file.overall[1][k].action = act
                    /\ export_file.overall[1][k].count =
                           SumDailyCounts(export_file.sections, act)
                    /\ export_file.overall[1][k].count =
                           Cardinality({i \in 1..Len(entries) : entries[i].action = act})

\* Three events of the three action kinds, two of one date and one of another,
\* exported.
C5_Witness ==
    /\ ExportWritten
    /\ Len(entries) = 3
    /\ {entries[i].action : i \in 1..3} = Actions
    /\ Cardinality(DOMAIN daily_entries) = 2
    /\ \E d \in DOMAIN daily_entries : Len(daily_entries[d]) = 2

\* The events of a rendering, in the order they are shown: each with the hour
\* count its date and its time of day stand for.
RECURSIVE RenderedHours(_)
RenderedHours(sections) ==
    IF sections = <<>> THEN <<>>
    ELSE [i \in 1..Len(Head(sections).rows) |->
             Head(sections).date * HoursPerDay + Head(sections).rows[i].time]
         \o RenderedHours(Tail(sections))

DescendingRendering(sections) ==
    /\ \A k, l \in 1..Len(sections) : k < l => sections[k].date > sections[l].date
    /\ \A k \in 1..Len(sections) :
          \A i, j \in 1..Len(sections[k].rows) :
             i < j => sections[k].rows[i].time >= sections[k].rows[j].time
    /\ LET hours == RenderedHours(sections)
       IN  \A i, j \in 1..Len(hours) : i < j => hours[i] >= hours[j]

ExportRequested == args.export # None

DatesParse == parse_date_arg(args.start_date).ok /\ parse_date_arg(args.end_date).ok

\* The predicates of the run: the date options as the dates they spell.
RunSatisfies(e) ==
    Satisfies(e,
              IF args.start_date = None THEN None ELSE Some(args.start_date[1].day),
              IF args.end_date = None THEN None ELSE Some(args.end_date[1].day),
              args.package, args.operation)

\* filter_entries has returned and the run has not yet ended.
Filtered == pc \in {"export", "notify", "display"}

\* C4: the cap is applied last: for a cap N that main accepts, when more than
\* N events satisfy the other predicates, the output is exactly the first N
\* of them in the descending-time input, the N most recent.
C4_CapKeepsFirstN ==
    (Filtered /\ args.limit # None)
        => LET N == args.limit[1]
               survivors == SelectSeq(entries, RunSatisfies)
           IN  Len(survivors) > N
                  => /\ Len(filtered_entries) = N
                     /\ filtered_entries = SubSeq(survivors, 1, N)

\* C8: with the log missing or unreadable parse_log is tried once, returns no
\* event and prints one message, which names the log path; the run ends
\* there: no export file is written, no popup shown, nothing displayed.
C8_UnavailableLogEndsRun ==
    log.status # "ok"
        => /\ opens <= 1
           /\ ~export_file.exists
           /\ popup = None
           /\ display = <<>>
           /\ pc \in {"parse", "done"}
           /\ pc = "done"
                 => /\ opens = 1
                    /\ entries = <<>>
                    /\ Len(console) = 1
                    /\ console[1].path = log.path
                    /\ exit_code = Some(0)

\* A run with --export on a log that cannot be read, ended.
C8_Witness ==
    /\ pc = "done"
    /\ log.status = "denied"
    /\ ExportRequested
    /\ ~args.no_notifications
    /\ console[1].text = "Error: Permission denied reading"

\* The export of no event: the header, no date section, and an overall
\* summary of one line per action kind, each with count 0.
EmptyExport ==
    /\ export_file.exists
    /\ export_file.header
    /\ export_file.sections = <<>>
    /\ export_file.overall # None
    /\ Len(export_file.overall[1]) = 3
    /\ \A act \in {"installed", "upgraded", "removed"} :
          \E k \in 1..Len(export_file.overall[1]) :
             export_file.overall[1][k] = [action |-> act, count |-> 0]

\* C9 as stated: whenever an export is requested and there is no event to
\* export, the log having yielded none or the filters having excluded all,
\* the run produces the export file of no event.
C9_EmptyExportAlwaysProduced ==
    (/\ pc = "done"
     /\ ExportRequested
     /\ entries = <<>> \/ (DatesParse /\ filtered_entries = <<>>))
        => EmptyExport

\* C9 as amended: when an export is requested, the log yielded an event and
\* the filters excluded every event, the export step, unless the write fails,
\* leaves the export file of no event; when the log yielded no event the run
\* ends before the export step and writes no file.
C9_EmptyExportWhenFiltersExcludeAll ==
    /\ (/\ ExportRequested
        /\ entries # <<>>
        /\ filtered_entries = <<>>
        /\ pc \in {"notify", "display"} \/ (pc = "done" /\ exit_code = Some(0)))
          => EmptyExport
    /\ (ExportRequested /\ pc = "done" /\ entries = <<>>) => ~export_file.exists

\* A run ended with status 0 whose log yielded events, all of them excluded by
\* the filters, and whose export was written.
C9_Witness ==
    /\ pc = "done"
    /\ exit_code = Some(0)
    /\ ExportRequested
    /\ Len(entries) = 2
    /\ filtered_entries = <<>>
    /\ export_file.exists
    /\ display = <<>>

\* The write of the export failed: save_to_text_file printed its message.
WriteFailed == \E k \in 1..Len(console) : console[k].text = "Error saving file:"

\* The export file is whole: header, date sections and overall summary.
ExportComplete ==
    export_file.exists /\ export_file.header /\ export_file.overall # None

\* The notification step returned: a popup was answered, or the fallback
\* lines were printed, or, with --no-notifications, the line on standard
\* output was.
NotificationDone ==
    IF args.no_notifications
    THEN \E k \in 1..Len(stdout) : stdout[k].text = "History saved to:"
    ELSE /\ ~\E k \in 1..Len(stdout) : stdout[k].text = "Operation cancelled by user"
         /\ \/ popup # None
            \/ \E k \in 1..Len(console) : console[k].text = "History saved to:"

\* The terminal display step has run: the sections are on the terminal, or,
\* for no entry, the display's message is.
DisplayRan ==
    \/ display # <<>>
    \/ \E k \in 1..Len(console) :
          console[k].text = "No package changes found in pacman.log."

\* C11: in a run with an export requested the terminal display runs only
\* after the export was written whole and the notification step returned;
\* when the write fails the run ends right there with the error reported and
\* exit status 1, never status 0, with no popup and no terminal display.
C11_FailedExportEndsRunWithoutDisplay ==
    ExportRequested
        => /\ DisplayRan => (ExportComplete /\ ~WriteFailed /\ NotificationDone)
           /\ WriteFailed
                 => /\ pc = "done"
                    /\ exit_code = Some(1)
                    /\ stdout # <<>>
                    /\ stdout[Len(stdout)].text = "An error occurred:"
                    /\ stdout[Len(stdout)].exc = "OSError"
                    /\ ~ExportComplete
                    /\ popup = None
                    /\ ~DisplayRan

\* A run ended by a write that failed after the header was in the file, with
\* events to display and notifications enabled.
C11_Witness ==
    /\ pc = "done"
    /\ ExportRequested
    /\ ~args.no_notifications
    /\ WriteFailed
    /\ exit_code = Some(1)
    /\ export_file.exists
    /\ export_file.header
    /\ filtered_entries # <<>>
    /\ display = <<>>

====
